---- MODULE Spec2Model ----
(***************************************************************************)
(* Model of src/kvstore.py: class KVStore, an append-only log of          *)
(* "SET <key> <value>\n" lines with a linear-scan in-memory index.        *)
(*                                                                         *)
(* Strings are sequences of one-character strings, so that formatting a   *)
(* record (set) and parsing it back (_replay_log: strip, split(' ', 2),   *)
(* upper) are computed character by character.  An Optional[str] is a     *)
(* sequence of length 0 (None) or 1 (<<v>>), so that None and the empty   *)
(* string differ.                                                          *)
(***************************************************************************)
EXTENDS Integers, Sequences, FiniteSets, TLC

VARIABLES
    file,       \* contents of the log file self.log_path (characters)
    exists,     \* os.path.exists(self.log_path)
    entries,    \* self.entries: sequence of <<key, value>>
    pc,         \* "down" (no process), "ready", "set" (inside set, before the
                \* write), "synced" (after fsync, before entries.append)
    cur,        \* the set call in progress or last made: key, value, file0
    ret,        \* what the last call gave its caller
    op,         \* name of the last step taken
    acked,      \* history: key -> value of the last set(key, _) to return, None
                \* from the moment a later set(key, _) is called
    live,       \* history: key -> value of the last set(key, _) to return in
                \* the running process
    called,     \* history: keys on which set was ever called
    good,       \* history: the records written to completion, in order
    shape,      \* history: "clean" (file is exactly the records of good),
                \* "tail" (those records, then one damaged final line), "mixed"
    crashed,    \* history: the set call a crash interrupted, <<>> if none
    nsets,      \* number of set calls made
    ndamage     \* number of torn writes, failed writes and foreign appends

vars == <<file, exists, entries, pc, cur, ret, op, acked, live, called, good,
          shape, crashed, nsets, ndamage>>

----------------------------------------------------------------------------
(* Bounds *)

MaxSets == 2
MaxDamage == 1

(* Inputs: keys are non-empty and newline-free, values newline-free. *)
Keys == { <<"a">>, <<"b">>, <<"a", " ", "b">> }
Values == { <<>>, <<"1", " ", "2">> }

(* Lines a foreign writer appends to the log while no process runs. *)
Garbage == { <<"\n">>, <<"X", "\n">>, <<"D", "E", "L", " ", "a", " ", "1", "\n">> }

(* Whole records another writer appends while no process runs; the       *)
(* command token is in lower case.                                       *)
Foreign == { [line |-> <<"s", "e", "t", " ", "b", " ", "2", "\n">>,
              key |-> <<"b">>, value |-> <<"2">>] }

None == <<>>
Some(v) == <<v>>

----------------------------------------------------------------------------
(* String operations of Python used by the code *)

Whitespace == {" ", "\n"}

RECURSIVE lstrip(_)
lstrip(s) ==
    IF s # <<>> /\ Head(s) \in Whitespace THEN lstrip(Tail(s)) ELSE s

RECURSIVE rstrip(_)
rstrip(s) ==
    IF s # <<>> /\ s[Len(s)] \in Whitespace
    THEN rstrip(SubSeq(s, 1, Len(s) - 1))
    ELSE s

strip(s) == rstrip(lstrip(s))

(* Smallest index of c in s, 0 when c does not occur. *)
find(s, c) ==
    LET I == {i \in 1..Len(s) : s[i] = c}
    IN  IF I = {} THEN 0 ELSE CHOOSE i \in I : \A j \in I : i <= j

(* s.split(' ', maxsplit) *)
RECURSIVE split(_, _)
split(s, maxsplit) ==
    LET n == find(s, " ")
    IN  IF maxsplit = 0 \/ n = 0
        THEN <<s>>
        ELSE <<SubSeq(s, 1, n - 1)>> \o split(SubSeq(s, n + 1, Len(s)), maxsplit - 1)

upper_char(c) ==
    CASE c = "a" -> "A"
      [] c = "b" -> "B"
      [] c = "s" -> "S"
      [] c = "e" -> "E"
      [] c = "t" -> "T"
      [] OTHER -> c

upper(s) == [i \in 1..Len(s) |-> upper_char(s[i])]

(* Iteration over a text file: lines in order, terminators kept; a final *)
(* line without terminator is yielded too.                                *)
RECURSIVE readlines(_)
readlines(f) ==
    IF f = <<>> THEN <<>>
    ELSE LET n == find(f, "\n")
         IN  IF n = 0 THEN <<f>>
             ELSE <<SubSeq(f, 1, n)>> \o readlines(SubSeq(f, n + 1, Len(f)))

----------------------------------------------------------------------------
(* KVStore *)

(* f"SET {key} {value}\n" *)
record(key, value) == <<"S", "E", "T", " ">> \o key \o <<" ">> \o value \o <<"\n">>

(* Faulty variant of replay_line: the command is compared as written. *)
replay_line_cased(raw) ==
    LET line == strip(raw)
    IN  IF line = <<>> THEN <<>>
        ELSE LET parts == split(line, 2)
             IN  IF Len(parts) < 3 THEN <<>>
                 ELSE IF parts[1] = <<"S", "E", "T">>
                      THEN << <<parts[2], parts[3]>> >>
                      ELSE <<>>

(* The body of the replay loop: the entries one line contributes. *)
replay_line(raw) ==
    LET line == strip(raw)
    IN  IF line = <<>> THEN <<>>
        ELSE LET parts == split(line, 2)
             IN  IF Len(parts) < 3 THEN <<>>
                 ELSE IF upper(parts[1]) = <<"S", "E", "T">>
                      THEN << <<parts[2], parts[3]>> >>
                      ELSE <<>>

RECURSIVE replay_lines(_)
replay_lines(ls) ==
    IF ls = <<>> THEN <<>>
    ELSE replay_line(Head(ls)) \o replay_lines(Tail(ls))

replay_log(f) == replay_lines(readlines(f))

(* Faulty variant of get: the scan runs from the head of the list. *)
RECURSIVE get_first(_, _)
get_first(es, key) ==
    IF es = <<>> THEN None
    ELSE IF Head(es)[1] = key
         THEN Some(Head(es)[2])
         ELSE get_first(Tail(es), key)

(* Faulty variant of get: the newest entry is returned whatever its key. *)
get_any(es, key) ==
    IF es = <<>> THEN None ELSE Some(es[Len(es)][2])

(* for k, v in reversed(self.entries): if k == key: return v; return None *)
RECURSIVE get(_, _)
get(es, key) ==
    IF es = <<>> THEN None
    ELSE IF es[Len(es)][1] = key
         THEN Some(es[Len(es)][2])
         ELSE get(SubSeq(es, 1, Len(es) - 1), key)

----------------------------------------------------------------------------
(* History bookkeeping *)

(* No value for any key a caller may pass, the empty key included. *)
NoKeys == [k \in Keys \cup {<<>>} |-> None]
NoCall == [key |-> <<>>, value |-> <<>>, file0 |-> <<>>]

Damaged(s) == IF s = "clean" THEN "tail" ELSE "mixed"

TypeOK ==
    /\ exists \in BOOLEAN
    /\ pc \in {"down", "ready", "set", "synced"}
    /\ shape \in {"clean", "tail", "mixed"}
    /\ nsets \in 0..MaxSets
    /\ ndamage \in 0..MaxDamage

Init ==
    /\ file = <<>>
    /\ exists = FALSE
    /\ entries = <<>>
    /\ pc = "down"
    /\ cur = NoCall
    /\ ret = "none"
    /\ op = "init"
    /\ acked = NoKeys
    /\ live = NoKeys
    /\ called = {}
    /\ good = <<>>
    /\ shape = "clean"
    /\ crashed = <<>>
    /\ nsets = 0
    /\ ndamage = 0

(* Faulty variant of Construct: the file is always opened with mode 'w'. *)
ConstructTruncating ==
    /\ pc = "down"
    /\ exists' = TRUE
    /\ file' = <<>>
    /\ entries' = replay_log(file')
    /\ pc' = "ready"
    /\ ret' = "store"
    /\ op' = "construct"
    /\ cur' = NoCall
    /\ UNCHANGED <<acked, live, called, good, shape, crashed, nsets, ndamage>>

(* KVStore.__init__: create the file if missing, then replay it. *)
Construct ==
    /\ pc = "down"
    /\ exists' = TRUE
    /\ file' = IF exists THEN file ELSE <<>>
    /\ entries' = replay_log(file')
    /\ pc' = "ready"
    /\ ret' = "store"
    /\ op' = "construct"
    /\ cur' = NoCall
    /\ UNCHANGED <<acked, live, called, good, shape, crashed, nsets, ndamage>>

(* Faulty variant of SetCall: the index is updated before the log. *)
SetCallIndexFirst(key, value) ==
    /\ pc = "ready"
    /\ nsets < MaxSets
    /\ pc' = "set"
    /\ entries' = Append(entries, <<key, value>>)
    /\ cur' = [key |-> key, value |-> value, file0 |-> file]
    /\ called' = called \cup {key}
    /\ nsets' = nsets + 1
    /\ ret' = "none"
    /\ op' = "set_call"
    /\ crashed' = <<>>
    /\ acked' = [acked EXCEPT ![key] = None]
    /\ UNCHANGED <<file, exists, live, good, shape, ndamage>>

(* set, line 67: the call is made and the record formatted. *)
SetCall(key, value) ==
    /\ pc = "ready"
    /\ nsets < MaxSets
    /\ pc' = "set"
    /\ cur' = [key |-> key, value |-> value, file0 |-> file]
    /\ called' = called \cup {key}
    /\ nsets' = nsets + 1
    /\ ret' = "none"
    /\ op' = "set_call"
    /\ crashed' = <<>>
    /\ acked' = [acked EXCEPT ![key] = None]
    /\ UNCHANGED <<file, exists, entries, live, good, shape, ndamage>>

(* Faulty variant of SetWrite: the file is opened with mode 'w'. *)
SetWriteTruncating ==
    /\ pc = "set"
    /\ file' = record(cur.key, cur.value)
    /\ pc' = "synced"
    /\ op' = "set_write"
    /\ good' = Append(good, <<cur.key, cur.value>>)
    /\ shape' = IF shape = "clean" THEN "clean" ELSE "mixed"
    /\ UNCHANGED <<exists, entries, cur, ret, acked, live, called, crashed,
                   nsets, ndamage>>

(* set, lines 68-71: open for append, write, flush, fsync all succeed. *)
SetWrite ==
    /\ pc = "set"
    /\ file' = file \o record(cur.key, cur.value)
    /\ pc' = "synced"
    /\ op' = "set_write"
    /\ good' = Append(good, <<cur.key, cur.value>>)
    /\ shape' = IF shape = "clean" THEN "clean" ELSE "mixed"
    /\ UNCHANGED <<exists, entries, cur, ret, acked, live, called, crashed,
                   nsets, ndamage>>

(* Faulty variant of SetIndex: older entries of the key are removed, as *)
(* a dictionary update would.                                          *)
SetIndexUpsert ==
    /\ pc = "synced"
    /\ entries' = Append(SelectSeq(entries, LAMBDA e : e[1] # cur.key),
                         <<cur.key, cur.value>>)
    /\ pc' = "ready"
    /\ ret' = "ok"
    /\ op' = "set_ok"
    /\ acked' = [acked EXCEPT ![cur.key] = Some(cur.value)]
    /\ live' = [live EXCEPT ![cur.key] = Some(cur.value)]
    /\ UNCHANGED <<file, exists, cur, called, good, shape, crashed, nsets, ndamage>>

(* set, line 72: the index is updated and set returns. *)
SetIndex ==
    /\ pc = "synced"
    /\ entries' = Append(entries, <<cur.key, cur.value>>)
    /\ pc' = "ready"
    /\ ret' = "ok"
    /\ op' = "set_ok"
    /\ acked' = [acked EXCEPT ![cur.key] = Some(cur.value)]
    /\ live' = [live EXCEPT ![cur.key] = Some(cur.value)]
    /\ UNCHANGED <<file, exists, cur, called, good, shape, crashed, nsets, ndamage>>

(* set, line 68: open raises OSError; nothing is written, the exception *)
(* leaves set before line 72.                                            *)
SetFailOpen ==
    /\ pc = "set"
    /\ pc' = "ready"
    /\ ret' = "OSError"
    /\ op' = "set_fail_open"
    /\ UNCHANGED <<file, exists, entries, cur, acked, live, called, good, shape,
                   crashed, nsets, ndamage>>

(* Faulty variant of SetFailWrite: the OSError is caught and set goes on *)
(* to line 72.                                                          *)
SetFailWriteSwallowed(n) ==
    /\ pc = "set"
    /\ ndamage < MaxDamage
    /\ n \in 1..Len(record(cur.key, cur.value))
    /\ file' = file \o SubSeq(record(cur.key, cur.value), 1, n)
    /\ entries' = Append(entries, <<cur.key, cur.value>>)
    /\ pc' = "ready"
    /\ ret' = "ok"
    /\ op' = "set_fail_write"
    /\ ndamage' = ndamage + 1
    /\ good' = good
    /\ shape' = Damaged(shape)
    /\ UNCHANGED <<exists, cur, acked, live, called, crashed, nsets>>

(* set, lines 69-71: write, flush or fsync raises OSError after n bytes *)
(* of the record reached the file; the exception leaves set before 72.  *)
SetFailWrite(n) ==
    /\ pc = "set"
    /\ ndamage < MaxDamage
    /\ n \in 1..Len(record(cur.key, cur.value))
    /\ file' = file \o SubSeq(record(cur.key, cur.value), 1, n)
    /\ pc' = "ready"
    /\ ret' = "OSError"
    /\ op' = "set_fail_write"
    /\ ndamage' = ndamage + 1
    /\ IF n = Len(record(cur.key, cur.value))
       THEN /\ good' = Append(good, <<cur.key, cur.value>>)
            /\ shape' = IF shape = "clean" THEN "clean" ELSE "mixed"
       ELSE /\ good' = good
            /\ shape' = Damaged(shape)
    /\ UNCHANGED <<exists, entries, cur, acked, live, called, crashed, nsets>>

(* Faulty variant of GetCall: self.entries is reversed in place. *)
GetCallReversing(key) ==
    /\ pc = "ready"
    /\ ret' = get(entries, key)
    /\ entries' = [i \in 1..Len(entries) |-> entries[Len(entries) + 1 - i]]
    /\ op' = "get"
    /\ UNCHANGED <<file, exists, pc, cur, acked, live, called, good,
                   shape, crashed, nsets, ndamage>>

(* get: a scan of self.entries. *)
GetCall(key) ==
    /\ pc = "ready"
    /\ ret' = get(entries, key)
    /\ op' = "get"
    /\ UNCHANGED <<file, exists, entries, pc, cur, acked, live, called, good,
                   shape, crashed, nsets, ndamage>>

(* The process dies outside the write: memory is lost, the file stays. *)
Crash ==
    /\ pc \in {"ready", "set", "synced"}
    /\ pc' = "down"
    /\ entries' = <<>>
    /\ ret' = "none"
    /\ op' = "crash"
    /\ crashed' = IF pc = "ready" THEN <<>> ELSE <<cur>>
    /\ live' = NoKeys
    /\ UNCHANGED <<file, exists, cur, acked, called, good, shape, nsets,
                   ndamage>>

(* The process dies inside the write of lines 69-71, after a proper, *)
(* non-empty prefix of the record reached the file.                   *)
CrashTorn(n) ==
    /\ pc = "set"
    /\ ndamage < MaxDamage
    /\ n \in 1..(Len(record(cur.key, cur.value)) - 1)
    /\ file' = file \o SubSeq(record(cur.key, cur.value), 1, n)
    /\ pc' = "down"
    /\ entries' = <<>>
    /\ ret' = "none"
    /\ op' = "crash_torn"
    /\ crashed' = <<cur>>
    /\ shape' = Damaged(shape)
    /\ ndamage' = ndamage + 1
    /\ live' = NoKeys
    /\ UNCHANGED <<exists, cur, acked, called, good, nsets>>

(* A foreign writer appends a malformed line while no process runs. *)
Corrupt(g) ==
    /\ pc = "down"
    /\ exists
    /\ ndamage < MaxDamage
    /\ file' = file \o g
    /\ op' = "corrupt"
    /\ shape' = Damaged(shape)
    /\ crashed' = <<>>
    /\ ndamage' = ndamage + 1
    /\ UNCHANGED <<exists, entries, pc, cur, ret, acked, live, called, good, nsets>>

(* Another writer appends a whole SET record while no process runs. *)
ForeignAppend(g) ==
    /\ pc = "down"
    /\ exists
    /\ ndamage < MaxDamage
    /\ file' = file \o g.line
    /\ op' = "foreign"
    /\ good' = Append(good, <<g.key, g.value>>)
    /\ shape' = IF shape = "clean" THEN "clean" ELSE "mixed"
    /\ acked' = [acked EXCEPT ![g.key] = None]
    /\ crashed' = <<>>
    /\ ndamage' = ndamage + 1
    /\ UNCHANGED <<exists, entries, pc, cur, ret, live, called, nsets>>

Next ==
    \/ Construct
    \/ \E key \in Keys, value \in Values : SetCall(key, value)
    \/ SetWrite
    \/ SetIndex
    \/ SetFailOpen
    \/ \E n \in 1..Len(record(cur.key, cur.value)) : SetFailWrite(n)
    \/ \E key \in Keys : GetCall(key)
    \/ Crash
    \/ \E n \in 1..Len(record(cur.key, cur.value)) : CrashTorn(n)
    \/ \E g \in Garbage : Corrupt(g)

Spec == Init /\ [][Next]_vars

(* The store over a log that another writer may also append whole SET   *)
(* lines to.                                                             *)
NextForeign ==
    \/ Next
    \/ \E g \in Foreign : ForeignAppend(g)

SpecForeign == Init /\ [][NextForeign]_vars

(* The store API called by a caller that does not validate the key: set *)
(* has no check of its own (lines 56-72), so the call proceeds as any    *)
(* other.                                                                *)
SetCallEmptyKey(value) == SetCall(<<>>, value)

NextAnyKey ==
    \/ Next
    \/ \E value \in Values : SetCallEmptyKey(value)

SpecAnyKey == Init /\ [][NextAnyKey]_vars

----------------------------------------------------------------------------
(* main: the command loop over a KVStore *)

OK == <<"O", "K">>
ERR == <<"E", "R", "R">>

(* Lines read from standard input. *)
Lines == {
    <<"S", "E", "T", " ", "a", " ", "1", " ", "2", "\n">>,
    <<"s", "e", "t", " ", "a", " ", "1", "\n">>,
    <<"S", "E", "T", " ", "a", "\n">>,
    <<"S", "E", "T", " ", " ", "1", "\n">>,
    <<"G", "E", "T", " ", "a", "\n">>,
    <<"G", "E", "T", " ", "b", "\n">>,
    <<"G", "E", "T", "\n">>,
    <<"G", "E", "T", " ", "a", " ", "b", "\n">>,
    <<"D", "E", "L", " ", "a", "\n">>,
    <<"E", "X", "I", "T", "\n">>,
    <<" ", "\n">> }

(* For each line of standard input: line = raw.strip(),                  *)
(* parts = line.split(' ', 2) and cmd = parts[0].upper().                *)
StdinLine == [raw \in Lines |-> strip(raw)]
StdinParts == [raw \in Lines |-> split(StdinLine[raw], 2)]
StdinCmd ==
    [raw \in Lines |->
        IF StdinLine[raw] = <<>> THEN <<>> ELSE upper(StdinParts[raw][1])]

main_line(raw) == StdinLine[raw]
main_parts(raw) == StdinParts[raw]
main_cmd(raw) == StdinCmd[raw]

(* The loop is at its top, about to read a line: the store is ready and *)
(* no OSError is on its way out of main.                                *)
MainIdle == pc = "ready" /\ op \notin {"set_fail_open", "set_fail_write"}

(* What GET prints: the value, or ERR for a missing key (lines 127-131). *)
main_get_output(es, key) ==
    IF get(es, key) = None THEN ERR ELSE get(es, key)[1]

(* Lines 99-101: an empty line is skipped. *)
MainBlank(raw) ==
    /\ MainIdle
    /\ main_line(raw) = <<>>
    /\ op' = "main_blank"
    /\ ret' = "none"
    /\ UNCHANGED <<file, exists, entries, pc, cur, acked, live, called, good,
                   shape, crashed, nsets, ndamage>>

(* Lines 107-110: EXIT prints OK and main returns; the process ends. *)
MainExit(raw) ==
    /\ MainIdle
    /\ main_line(raw) # <<>>
    /\ main_cmd(raw) = <<"E", "X", "I", "T">>
    /\ pc' = "down"
    /\ entries' = <<>>
    /\ op' = "main_exit"
    /\ ret' = OK
    /\ live' = NoKeys
    /\ crashed' = <<>>
    /\ UNCHANGED <<file, exists, cur, acked, called, good, shape, nsets, ndamage>>

(* Faulty variant of MainSet: the key is not validated. *)
MainSetUnvalidated(raw) ==
    /\ MainIdle
    /\ main_line(raw) # <<>>
    /\ main_cmd(raw) = <<"S", "E", "T">>
    /\ Len(main_parts(raw)) >= 3
    /\ SetCall(main_parts(raw)[2], main_parts(raw)[3])

(* Lines 112-119: a SET line with three fields and a valid key and value *)
(* calls store.set.                                                      *)
MainSet(raw) ==
    /\ MainIdle
    /\ main_line(raw) # <<>>
    /\ main_cmd(raw) = <<"S", "E", "T">>
    /\ Len(main_parts(raw)) >= 3
    /\ find(main_parts(raw)[2], "\n") = 0
    /\ find(main_parts(raw)[3], "\n") = 0
    /\ main_parts(raw)[2] # <<>>
    /\ SetCall(main_parts(raw)[2], main_parts(raw)[3])

(* Line 72 and lines 119-121: set updates the index and returns, main   *)
(* prints OK.                                                            *)
MainSetDone ==
    /\ pc = "synced"
    /\ entries' = Append(entries, <<cur.key, cur.value>>)
    /\ pc' = "ready"
    /\ op' = "main_ok"
    /\ ret' = OK
    /\ acked' = [acked EXCEPT ![cur.key] = Some(cur.value)]
    /\ live' = [live EXCEPT ![cur.key] = Some(cur.value)]
    /\ UNCHANGED <<file, exists, cur, called, good, shape, crashed, nsets, ndamage>>

(* Lines 137 and 143: the OSError of set is no ValueError and no         *)
(* KeyboardInterrupt; it leaves main and the process ends, nothing       *)
(* printed.                                                              *)
MainUncaught ==
    /\ pc = "ready"
    /\ op \in {"set_fail_open", "set_fail_write"}
    /\ pc' = "down"
    /\ entries' = <<>>
    /\ op' = "main_uncaught"
    /\ ret' = "none"
    /\ live' = NoKeys
    /\ crashed' = <<>>
    /\ UNCHANGED <<file, exists, cur, acked, called, good, shape, nsets, ndamage>>

(* Lines 123-132: a GET line with exactly two fields prints the value or *)
(* ERR.                                                                  *)
MainGet(raw) ==
    /\ MainIdle
    /\ main_line(raw) # <<>>
    /\ main_cmd(raw) = <<"G", "E", "T">>
    /\ Len(main_parts(raw)) = 2
    /\ op' = "main_get"
    /\ ret' = main_get_output(entries, main_parts(raw)[2])
    /\ UNCHANGED <<file, exists, entries, pc, cur, acked, live, called, good,
                   shape, crashed, nsets, ndamage>>

(* Lines 113-118, 124-125, 134-135: the conditions under which a       *)
(* non-empty line raises ValueError.                                     *)
main_raises(raw) ==
    \/ /\ main_cmd(raw) = <<"S", "E", "T">>
       /\ \/ Len(main_parts(raw)) < 3
          \/ /\ Len(main_parts(raw)) >= 3
             /\ \/ find(main_parts(raw)[2], "\n") # 0
                \/ find(main_parts(raw)[3], "\n") # 0
                \/ main_parts(raw)[2] = <<>>
    \/ /\ main_cmd(raw) = <<"G", "E", "T">>
       /\ Len(main_parts(raw)) # 2
    \/ main_cmd(raw) \notin {<<"E", "X", "I", "T">>, <<"S", "E", "T">>, <<"G", "E", "T">>}

(* Lines 137-139: the ValueError is caught, ERR is printed and the loop  *)
(* goes on.                                                              *)
MainErr(raw) ==
    /\ MainIdle
    /\ main_line(raw) # <<>>
    /\ main_raises(raw)
    /\ op' = "main_err"
    /\ ret' = ERR
    /\ UNCHANGED <<file, exists, entries, pc, cur, acked, live, called, good,
                   shape, crashed, nsets, ndamage>>

(* One iteration of the loop of main on the line raw. *)
MainLine(raw) ==
    \/ MainBlank(raw)
    \/ MainExit(raw)
    \/ MainSet(raw)
    \/ MainGet(raw)
    \/ MainErr(raw)

MainNext ==
    \/ Construct
    \/ \E raw \in Lines : MainBlank(raw)
    \/ \E raw \in Lines : MainExit(raw)
    \/ \E raw \in Lines : MainSet(raw)
    \/ \E raw \in Lines : MainGet(raw)
    \/ \E raw \in Lines : MainErr(raw)
    \/ SetWrite
    \/ MainSetDone
    \/ SetFailOpen
    \/ \E n \in 1..Len(record(cur.key, cur.value)) : SetFailWrite(n)
    \/ MainUncaught
    \/ Crash
    \/ \E n \in 1..Len(record(cur.key, cur.value)) : CrashTorn(n)
    \/ \E g \in Garbage : Corrupt(g)
    \/ \E g \in Foreign : ForeignAppend(g)

MainSpec == Init /\ [][MainNext]_vars

----------------------------------------------------------------------------
(* Properties *)

IsPrefix(s, t) == Len(s) <= Len(t) /\ SubSeq(t, 1, Len(s)) = s

(* The get results of a store holding es, for the keys of the model. *)
GetAll(es) == [k \in Keys |-> get(es, k)]

(* Largest index of an entry of es with key k, 0 when there is none. *)
LastIndex(es, k) ==
    LET I == {i \in 1..Len(es) : es[i][1] = k}
    IN  IF I = {} THEN 0 ELSE CHOOSE i \in I : \A j \in I : j <= i

(* The text "<cmd> <key> <value>", cmd being SET in any case, occurs in f. *)
OccursIn(e, f) ==
    LET body == <<" ">> \o e[1] \o <<" ">> \o e[2]
    IN  \E p \in 1..Len(f) :
            /\ p + 2 + Len(body) <= Len(f)
            /\ upper_char(f[p]) = "S"
            /\ upper_char(f[p + 1]) = "E"
            /\ upper_char(f[p + 2]) = "T"
            /\ SubSeq(f, p + 3, p + 2 + Len(body)) = body

(* C1. Durability: in a ready store, every key whose last set(k, v)      *)
(* returned, with no set(k, _) called since, reads back v; also after a  *)
(* crash and a new store over the same log.                              *)
Durability ==
    pc = "ready" =>
        \A k \in Keys : acked[k] # None => get(entries, k) = acked[k]

(* C2. Replay equivalence: after construction and after every completed  *)
(* set, self.entries is what replaying the current log gives, entry for  *)
(* entry and in the same order.                                          *)
ReplayEquivalence ==
    op \in {"construct", "set_ok"} => entries = replay_log(file)

(* C3. Last-write-wins: get(k) is the value of the highest-index entry   *)
(* with key k, None when there is none; and after the sets of the        *)
(* running process, get(k) is the value of the last of them on k.        *)
LastWriteWins ==
    pc = "ready" =>
        /\ \A k \in Keys \cup {entries[i][1] : i \in 1..Len(entries)} :
               get(entries, k) =
                   IF LastIndex(entries, k) = 0 THEN None
                   ELSE Some(entries[LastIndex(entries, k)][2])
        /\ \A k \in Keys : live[k] # None => get(entries, k) = live[k]

(* C3 witness: a key was set twice with different values and get gave   *)
(* the later one.                                                        *)
LastWriteWinsWitness ==
    /\ op = "get"
    /\ \E i, j \in 1..Len(entries) :
           /\ i < j
           /\ entries[i][1] = entries[j][1]
           /\ entries[i][2] # entries[j][2]
           /\ LastIndex(entries, entries[j][1]) = j
           /\ ret = Some(entries[j][2])

(* C4. Crash atomicity: the store constructed after a crash inside       *)
(* set(k, v) answers every get either as a restart would have before the *)
(* call, or like that with get(k) = v.                                   *)
CrashAtomicity ==
    (op = "construct" /\ crashed # <<>>) =>
        LET c == crashed[1]
            before == GetAll(replay_log(c.file0))
        IN  \/ GetAll(entries) = before
            \/ GetAll(entries) = [before EXCEPT ![c.key] = Some(c.value)]

AppendOnly ==
    [][ /\ IsPrefix(file, file')
        /\ op' = "set_ok" =>
               file' = cur'.file0 \o <<"S", "E", "T", " ">> \o cur'.key
                           \o <<" ">> \o cur'.value \o <<"\n">>
      ]_vars

(* C6 witness: a set returned on a log that was not empty. *)
AppendOnlyWitness ==
    op = "set_ok" /\ cur.file0 # <<>>

(* C7. Corrupted-tail tolerance: a store constructed over well-formed    *)
(* records followed by one damaged final line answers every get with the *)
(* last-write-wins value of those records alone.                         *)
CorruptedTailTolerance ==
    (op = "construct" /\ shape = "tail") =>
        \A k \in Keys : get(entries, k) = get(good, k)

(* C8. A set whose log append fails with an I/O error raises it to the   *)
(* caller, reports no success and appends nothing to the index.          *)
IOErrorSurfaced ==
    [][ op' \in {"set_fail_open", "set_fail_write"} =>
            /\ ret' = "OSError"
            /\ entries' = entries
            /\ acked' = acked
      ]_vars

(* C8 witness: a write failed after some bytes of the record reached the *)
(* file of a store whose index holds entries.                            *)
IOErrorSurfacedWitness ==
    op = "set_fail_write" /\ Len(entries) >= 1 /\ file # cur.file0

(* C9. Absence: a key on which set was never called and for which the    *)
(* log holds no SET record reads as None.                                *)
Absence ==
    pc = "ready" =>
        \A k \in Keys \ called :
            \/ get(entries, k) = None
            \/ LastIndex(replay_log(file), k) # 0

(* C9 witness: get gave None in a store that holds entries for other     *)
(* keys, after a restart.                                                *)
AbsenceWitness ==
    /\ op = "get"
    /\ ret = None
    /\ Len(entries) >= 1
    /\ live = NoKeys
    /\ \E k \in Keys : k \notin called /\ get(entries, k) = None

(* C10. get is a pure read: a get step changes neither the log file nor  *)
(* the index, so every key reads the same after it as before.            *)
GetIsPure ==
    [][ op' = "get" =>
            /\ file' = file
            /\ exists' = exists
            /\ entries' = entries
            /\ GetAll(entries') = GetAll(entries)
      ]_vars

(* C10 witness: a get answered with a value in a store with a log. *)
GetIsPureWitness ==
    op = "get" /\ ret # None /\ file # <<>>

(* C11. Construction frame: constructing a store creates the log file    *)
(* empty when it is missing and leaves an existing file as it is, and    *)
(* the index it builds is the replay of that file and of nothing else,   *)
(* so every construction over the same log gives the same index and log. *)
ConstructionFrame ==
    [][ op' = "construct" =>
            /\ exists'
            /\ file' = IF exists THEN file ELSE <<>>
            /\ entries' = replay_log(file')
            /\ exists => entries' = replay_log(file)
      ]_vars

(* C11 witness: a store constructed over an existing log with records. *)
ConstructionFrameWitness ==
    op = "construct" /\ Len(entries) >= 1 /\ Len(file) >= 1

(* C12. Index entries are never changed or deleted while the store       *)
(* lives: every step of a running store leaves the old index as a prefix *)
(* of the new one, a set that returns has added exactly (k, v) at the    *)
(* tail, and a get adds nothing.                                         *)
IndexAppendOnly ==
    [][ (pc # "down" /\ pc' # "down") =>
            /\ IsPrefix(entries, entries')
            /\ op' = "set_ok" => entries' = entries \o << <<cur.key, cur.value>> >>
            /\ op' = "get" => entries' = entries
            /\ op' \notin {"set_ok"} => entries' = entries
      ]_vars

(* C12 witness: a set returned in a store whose index already held an   *)
(* entry of the same key.                                                *)
IndexAppendOnlyWitness ==
    /\ op = "set_ok"
    /\ Len(entries) >= 2
    /\ \E i \in 1..(Len(entries) - 1) : entries[i][1] = cur.key

(* C13. Record round trip: the line set writes for a key without spaces  *)
(* and any value is replayed as exactly that key and that value, also    *)
(* when the value holds spaces or is empty.                              *)
RecordRoundTrip ==
    (pc = "synced" /\ find(cur.key, " ") = 0) =>
        replay_line(record(cur.key, cur.value)) = << <<cur.key, cur.value>> >>

(* The replay rule in the words of the specification, by positions. *)
Min(S) == CHOOSE i \in S : \A j \in S : i <= j
Max(S) == CHOOSE i \in S : \A j \in S : j <= i

Trimmed(s) ==
    LET I == {i \in 1..Len(s) : s[i] \notin {" ", "\n"}}
    IN  IF I = {} THEN <<>> ELSE SubSeq(s, Min(I), Max(I))

IsSetToken(t) ==
    /\ Len(t) = 3
    /\ t[1] \in {"S", "s"}
    /\ t[2] \in {"E", "e"}
    /\ t[3] \in {"T", "t"}

RuleLine(raw) ==
    LET s  == Trimmed(raw)
        Sp == {i \in 1..Len(s) : s[i] = " "}
    IN  IF Cardinality(Sp) < 2 THEN <<>>
        ELSE LET p1 == Min(Sp)
                 p2 == Min(Sp \ {p1})
             IN  IF IsSetToken(SubSeq(s, 1, p1 - 1))
                 THEN << <<SubSeq(s, p1 + 1, p2 - 1), SubSeq(s, p2 + 1, Len(s))>> >>
                 ELSE <<>>

RECURSIVE RuleFrom(_, _)
RuleFrom(f, a) ==
    IF a > Len(f) THEN <<>>
    ELSE LET N == {i \in a..Len(f) : f[i] = "\n"}
             e == IF N = {} THEN Len(f) ELSE Min(N)
         IN  RuleLine(SubSeq(f, a, e)) \o RuleFrom(f, e + 1)

(* C14. Replay parse rule: the index a construction builds is, in file   *)
(* order, the (key, value-remainder) of the lines that, stripped, split  *)
(* on their first two spaces into three fields the first of which is SET *)
(* in any case; every other line contributes nothing.                    *)
ReplayParseRule ==
    op = "construct" => entries = RuleFrom(file, 1)

(* C14 witness: a store constructed over a log that holds a record with  *)
(* a lower-case command after other records.                             *)
ReplayParseRuleWitness ==
    /\ op = "construct"
    /\ Len(entries) >= 2
    /\ entries[Len(entries)] = <<<<"b">>, <<"2">>>>
    /\ \E i \in 1..Len(file) : file[i] = "s"

(* C15. Empty-key rejection: a set called with the empty key is refused: *)
(* it never writes to the log, never adds to the index and never returns *)
(* success.                                                              *)
EmptyKeyRejected ==
    ~ (cur.key = <<>> /\ op \in {"set_write", "set_ok"})

(* C16. Acknowledged writes survive restart at the protocol level: OK   *)
(* is printed for a SET line only when the record is the end of the log  *)
(* file, and a GET on a restarted process prints, for every key whose    *)
(* last SET was answered OK, exactly the acknowledged value.             *)
AckedSurvivesRestart ==
    /\ op = "main_ok" =>
           /\ Len(file) >= Len(record(cur.key, cur.value))
           /\ SubSeq(file, Len(file) - Len(record(cur.key, cur.value)) + 1, Len(file))
                  = record(cur.key, cur.value)
           /\ file = cur.file0 \o record(cur.key, cur.value)
    /\ op = "construct" =>
           \A k \in Keys :
               acked[k] # None => main_get_output(entries, k) = acked[k][1]

(* A malformed command line in the words of the specification, by       *)
(* positions: fields are cut at the first two spaces of the trimmed line.*)
IsGetToken(t) ==
    /\ Len(t) = 3
    /\ t[1] \in {"G", "g"}
    /\ t[2] \in {"E", "e"}
    /\ t[3] \in {"T", "t"}

IsExitToken(t) ==
    /\ Len(t) = 4
    /\ t[1] \in {"E", "e"}
    /\ t[2] \in {"X", "x"}
    /\ t[3] \in {"I", "i"}
    /\ t[4] \in {"T", "t"}

MalformedLine(raw) ==
    LET s   == Trimmed(raw)
        Sp  == {i \in 1..Len(s) : s[i] = " "}
        n   == IF Cardinality(Sp) >= 2 THEN 3 ELSE Cardinality(Sp) + 1
        tok == IF Sp = {} THEN s ELSE SubSeq(s, 1, Min(Sp) - 1)
    IN  /\ s # <<>>
        /\ \/ ~ (IsSetToken(tok) \/ IsGetToken(tok) \/ IsExitToken(tok))
           \/ IsSetToken(tok) /\ n < 3
           \/ IsSetToken(tok) /\ n = 3 /\ Min(Sp \ {Min(Sp)}) = Min(Sp) + 1
           \/ IsGetToken(tok) /\ n # 2

(* The sampled lines that are malformed, and whether each of them meets *)
(* a condition under which main raises the error it catches.             *)
MalformedLines == {raw \in Lines : MalformedLine(raw)}
MalformedRaise == \A raw \in MalformedLines : main_line(raw) # <<>> /\ main_raises(raw)

(* C17. Malformed commands: every malformed line raises the error the    *)
(* loop catches; a loop iteration on one prints ERR, leaves the log file *)
(* and the index unchanged, and leaves the loop ready for the next line. *)
MalformedAnswered ==
    [][ /\ MalformedRaise
        /\ MainIdle =>
               \A raw \in MalformedLines :
                   MainLine(raw) =>
                       /\ op' = "main_err"
                       /\ ret' = ERR
                       /\ file' = file
                       /\ exists' = exists
                       /\ entries' = entries
                       /\ pc' = "ready" ]_vars

(* C17 witness: ERR was printed by a loop whose store holds entries.     *)
MalformedAnsweredWitness ==
    /\ op = "main_err"
    /\ pc = "ready"
    /\ Len(entries) >= 1
    /\ Len(file) >= 1

(* C18. Writes after a crash-partial tail remain recoverable: when set   *)
(* returns on a log that ended in an unterminated partial record, and    *)
(* the record it wrote replays to (k, v) on its own, a restart reads v   *)
(* for k.                                                                *)
WritesAfterPartialTail ==
    (/\ op = "set_ok"
     /\ cur.file0 # <<>>
     /\ cur.file0[Len(cur.file0)] # "\n"
     /\ replay_line(record(cur.key, cur.value)) = << <<cur.key, cur.value>> >>)
    => get(replay_log(file), cur.key) = Some(cur.value)

(* C19. Key isolation: a set(k, v) that returns leaves get(k') of every  *)
(* other key k' as it was, in the running store and in the store a       *)
(* restart would build from the log.                                     *)
KeyIsolation ==
    op = "set_ok" =>
        \A k \in Keys \ {cur.key} :
            /\ get(entries, k) = get(SubSeq(entries, 1, Len(entries) - 1), k)
            /\ get(replay_log(file), k) = get(replay_log(cur.file0), k)

====
